---- MODULE Spec2Model ----
(***************************************************************************)
(* Symbol extraction, dependency linking and module graph construction of  *)
(* CodeBot (src/core/parser.py, src/core/retrieval.py, src/arch.py).        *)
(*                                                                         *)
(* Dotted names ("a.b.x") are sequences of identifiers (<<"a","b","x">>):  *)
(* f"{p}.{q}" is p \o q, so "a.b" + "x" and "a" + "b.x" are the same name, *)
(* as they are the same string in the program.  None is <<>>.              *)
(***************************************************************************)
EXTENDS Integers, Sequences, FiniteSets, TLC

\* ------------------------------------------------------------------ bounds
MaxStmts == 3      \* statements in the repository, over all its files
MaxRuns == 2       \* parse_repository runs in one behaviour
MaxSyms == 2       \* symbols of an arbitrary table handed to the linker
MaxImports == 2    \* imports of one symbol of such a table
MaxDocs == 12      \* documents of the vector store
MaxSelected == 3   \* entries of a module selection
MaxDepth == 2      \* definitions nested in a top-level definition
MaxCommits == 2    \* commits of one push payload

None == <<>>

Range(s) == {s[i] : i \in DOMAIN s}

RECURSIVE Reverse(_)
Reverse(s) == IF s = <<>> THEN <<>> ELSE Append(Reverse(Tail(s)), Head(s))

\* ------------------------------------------------- strings and their order
\* Code point order of the identifiers of the model ("" sorts first).
Rank(s) ==
    CASE s = "" -> 0 [] s = "a" -> 1 [] s = "b" -> 2 [] s = "f" -> 3
      [] s = "x" -> 4 [] OTHER -> 5

\* str.__lt__ on dotted names: "." sorts before every identifier character,
\* so comparing the strings is comparing the component lists.
RECURSIVE StrLess(_, _)
StrLess(p, q) ==
    IF p = <<>> THEN q # <<>>
    ELSE IF q = <<>> THEN FALSE
    ELSE IF p[1] = q[1] THEN StrLess(Tail(p), Tail(q))
    ELSE Rank(p[1]) < Rank(q[1])

\* sorted(a set of strings)
RECURSIVE sorted(_)
sorted(S) ==
    IF S = {} THEN <<>>
    ELSE LET m == CHOOSE m \in S : \A o \in S \ {m} : StrLess(m, o)
         IN  <<m>> \o sorted(S \ {m})

\* Iteration order of a set of strings: it follows the string hashes, which
\* are salted per process (PYTHONHASHSEED).  Two of the possible orders.
HashSeeds == {0, 1}
set_iter(S, seed) == IF seed = 0 THEN sorted(S) ELSE Reverse(sorted(S))

\* ------------------------------------------------------------ dict (ordered)
\* A dict is the sequence of its items in insertion order.
dict_has(d, k) == \E i \in DOMAIN d : d[i].key = k
dict_get(d, k) == d[CHOOSE i \in DOMAIN d : d[i].key = k].value
dict_set(d, k, v) ==
    IF dict_has(d, k)
    THEN [i \in DOMAIN d |-> IF d[i].key = k THEN [key |-> k, value |-> v] ELSE d[i]]
    ELSE Append(d, [key |-> k, value |-> v])
dict_values(d) == [i \in DOMAIN d |-> d[i].value]

\* --------------------------------------------------------------- syntax tree
\* ast nodes.  ids: the ast.Name identifiers written directly in the node
\* (not in a nested definition); lineno as ast.parse sets it.
alias(name, asname) == [name |-> name, asname |-> asname]
ImportFrom(module, names) == [kind |-> "ImportFrom", module |-> module, names |-> names]
Import(names) == [kind |-> "Import", names |-> names]
FunctionDef(name, ids, body) ==
    [kind |-> "FunctionDef", name |-> name, ids |-> ids, body |-> body, lineno |-> 0]
ClassDef(name, ids, body) ==
    [kind |-> "ClassDef", name |-> name, ids |-> ids, body |-> body, lineno |-> 0]
Assign(targets, ids) ==
    [kind |-> "Assign", targets |-> targets, ids |-> ids, lineno |-> 0]
Module(body) == [kind |-> "Module", body |-> body]

iter_child_nodes(node) == IF "body" \in DOMAIN node THEN node.body ELSE <<>>

\* ast.walk: breadth first over the tree
RECURSIVE walk_queue(_)
walk_queue(todo) ==
    IF todo = <<>> THEN <<>>
    ELSE <<Head(todo)>> \o walk_queue(Tail(todo) \o iter_child_nodes(Head(todo)))
walk(node) == walk_queue(<<node>>)

\* parser.py build_import_map
RECURSIVE import_aliases(_, _, _)
import_aliases(node, names, import_map) ==
    IF names = <<>> THEN import_map
    ELSE LET a == Head(names)
             key == IF a.asname # None THEN a.asname ELSE a.name
             module == IF node.kind = "ImportFrom"
                       THEN (IF node.module = None THEN <<"">> ELSE node.module)
                       ELSE None
             value == IF node.kind = "Import" THEN a.name ELSE module \o a.name
         IN  import_aliases(node, Tail(names), dict_set(import_map, key, value))

RECURSIVE import_nodes(_, _)
import_nodes(nodes, import_map) ==
    IF nodes = <<>> THEN import_map
    ELSE LET node == Head(nodes)
         IN  import_nodes(Tail(nodes),
                 IF node.kind \in {"Import", "ImportFrom"}
                 THEN import_aliases(node, node.names, import_map)
                 ELSE import_map)

build_import_map(tree) == import_nodes(walk(tree), <<>>)

\* parser.py extract_used_names: every ast.Name of the sub-tree (an
\* assignment's targets are ast.Name nodes too)
RECURSIVE extract_used_names(_)
extract_used_names(node) ==
    (IF "ids" \in DOMAIN node THEN node.ids ELSE {})
    \cup (IF "targets" \in DOMAIN node THEN Range(node.targets) ELSE {})
    \cup UNION {extract_used_names(c) : c \in Range(iter_child_nodes(node))}

\* [import_map[n] for n in used_names if n in import_map]
used_imports_of(used_names, import_map, seed) ==
    LET hits == set_iter({<<n>> : n \in {u \in used_names : dict_has(import_map, <<u>>)}}, seed)
    IN  [i \in DOMAIN hits |-> dict_get(import_map, hits[i])]

\* ------------------------------------------------------------ SymbolVisitor
\* The visitor object: [symbols, class_stack].  The stack holds the class
\* symbols under which the visited node is nested.
SymbolVisitor == [symbols |-> <<>>, class_stack |-> <<>>]

\* list(set(used_imports)) of a definition node
node_imports(node, import_map, seed) ==
    set_iter(Range(used_imports_of(extract_used_names(node), import_map, seed)), seed)

\* SymbolVisitor._handle_function: the symbol it appends
function_symbol(node, class_stack, file_path, import_map, seed) ==
    LET has_parent == class_stack # <<>>
        parent == class_stack[Len(class_stack)]
    IN  [file_path |-> file_path,
         symbol_type |-> IF has_parent THEN "method" ELSE "function",
         name |-> node.name,
         qualified_name |-> IF has_parent THEN parent.qualified_name \o <<node.name>>
                            ELSE <<node.name>>,
         parent_class |-> IF has_parent THEN parent.qualified_name ELSE None,
         start_lineno |-> node.lineno,
         imports |-> node_imports(node, import_map, seed)]

\* SymbolVisitor.visit_ClassDef: the symbol it appends and pushes
class_symbol(node, class_stack, file_path, import_map, seed) ==
    LET has_parent == class_stack # <<>>
        parent == class_stack[Len(class_stack)]
    IN  [file_path |-> file_path,
         symbol_type |-> "class",
         name |-> node.name,
         qualified_name |-> IF has_parent THEN parent.qualified_name \o <<node.name>>
                            ELSE <<node.name>>,
         parent_class |-> IF has_parent THEN parent.qualified_name ELSE None,
         start_lineno |-> node.lineno,
         imports |-> node_imports(node, import_map, seed)]

RECURSIVE visit(_, _, _, _, _)
RECURSIVE generic_visit(_, _, _, _, _)

\* visit_ClassDef without self.class_stack.pop()
visit_no_pop(node, v, file_path, import_map, seed) ==
    IF node.kind = "FunctionDef"
    THEN generic_visit(node.body,
            [v EXCEPT !.symbols = Append(@,
                function_symbol(node, v.class_stack, file_path, import_map, seed))],
            file_path, import_map, seed)
    ELSE IF node.kind = "ClassDef"
    THEN LET sym == class_symbol(node, v.class_stack, file_path, import_map, seed)
             pushed == [symbols |-> Append(v.symbols, sym),
                        class_stack |-> Append(v.class_stack, sym)]
         IN  generic_visit(node.body, pushed, file_path, import_map, seed)
    ELSE generic_visit(iter_child_nodes(node), v, file_path, import_map, seed)

\* NodeVisitor.visit dispatching to visit_FunctionDef / visit_ClassDef
visit(node, v, file_path, import_map, seed) ==
    IF node.kind = "FunctionDef"
    THEN generic_visit(node.body,
            [v EXCEPT !.symbols = Append(@,
                function_symbol(node, v.class_stack, file_path, import_map, seed))],
            file_path, import_map, seed)
    ELSE IF node.kind = "ClassDef"
    THEN LET sym == class_symbol(node, v.class_stack, file_path, import_map, seed)
             pushed == [symbols |-> Append(v.symbols, sym),
                        class_stack |-> Append(v.class_stack, sym)]
             inside == generic_visit(node.body, pushed, file_path, import_map, seed)
         IN  [inside EXCEPT !.class_stack = SubSeq(@, 1, Len(@) - 1)]
    ELSE generic_visit(iter_child_nodes(node), v, file_path, import_map, seed)

generic_visit(children, v, file_path, import_map, seed) ==
    IF children = <<>> THEN v
    ELSE generic_visit(Tail(children),
            visit(Head(children), v, file_path, import_map, seed),
            file_path, import_map, seed)

\* ---------------------------------------------------- extract_module_exports
\* Path separator of the platform the model describes.
os_sep == "/"

\* '.'.join(file_path.split('.')[0].split('\\')[1:]): with "/" separators the
\* split leaves one piece and the join is the empty string.
exports_module_qname(file_path) ==
    IF os_sep = "\\" THEN file_path.dirs \o <<file_path.name>> ELSE <<"">>

RECURSIVE assign_targets(_, _, _, _, _)
assign_targets(node, targets, file_path, import_map, seed) ==
    IF targets = <<>> THEN <<>>
    ELSE <<[file_path |-> file_path,
            symbol_type |-> "variable",
            name |-> Head(targets),
            parent_class |-> None,
            qualified_name |-> exports_module_qname(file_path) \o <<Head(targets)>>,
            start_lineno |-> node.lineno,
            imports |-> used_imports_of(extract_used_names(node), import_map, seed)]>>
         \o assign_targets(node, Tail(targets), file_path, import_map, seed)

RECURSIVE variable_symbols_of(_, _, _, _)
variable_symbols_of(body, file_path, import_map, seed) ==
    IF body = <<>> THEN <<>>
    ELSE (IF Head(body).kind = "Assign"
          THEN assign_targets(Head(body), Head(body).targets, file_path, import_map, seed)
          ELSE <<>>)
         \o variable_symbols_of(Tail(body), file_path, import_map, seed)

\* (list(exports), variable_symbols)
extract_module_exports(tree, file_path, seed) ==
    LET import_map == build_import_map(tree)
        variable_symbols == variable_symbols_of(tree.body, file_path, import_map, seed)
        exports == {<<variable_symbols[i].name>> : i \in DOMAIN variable_symbols}
        listed == set_iter(exports, seed)
    IN  [exports |-> [i \in DOMAIN listed |-> listed[i][1]],
         variable_symbols |-> variable_symbols]

\* ------------------------------------------------------------------ parse_file
\* A file of the repository: absent, zero bytes, text ast.parse rejects, or
\* text with a syntax tree.
Absent == [kind |-> "absent"]
EmptyFile == [kind |-> "empty"]
BadSyntax == [kind |-> "syntax_error"]
Source(body) == [kind |-> "source", tree |-> Module(body)]

\* open() or ast.parse() raises
parse_raises(content) == content.kind # "source"

\* ".".join(rel_path.with_suffix("").parts)
module_qname_of(file_path) == file_path.dirs \o <<file_path.name>>

\* The loop of lines 283-316 run on symbols that went through it already
qualify_twice(symbol, module_qname) ==
    IF symbol.symbol_type = "module"
    THEN [UID |-> module_qname] @@ symbol
    ELSE IF symbol.symbol_type = "variable"
    THEN [UID |-> module_qname \o <<symbol.name>>]
         @@ [symbol EXCEPT !.qualified_name = module_qname \o <<symbol.name>>]
    ELSE [UID |-> module_qname \o module_qname \o symbol.qualified_name]
         @@ [symbol EXCEPT !.qualified_name = module_qname \o module_qname \o @,
                           !.parent_class = IF @ # None THEN module_qname \o module_qname \o @
                                            ELSE @]

\* The loop of lines 283-316: UIDs and module-prefixed names
qualify(symbol, module_qname) ==
    IF symbol.symbol_type = "module"
    THEN [UID |-> module_qname] @@ symbol
    ELSE IF symbol.symbol_type = "variable"
    THEN [UID |-> module_qname \o <<symbol.name>>]
         @@ [symbol EXCEPT !.qualified_name = module_qname \o <<symbol.name>>]
    ELSE [UID |-> module_qname \o symbol.qualified_name]
         @@ [symbol EXCEPT !.qualified_name = module_qname \o @,
                           !.parent_class = IF @ # None THEN module_qname \o @ ELSE @]

\* parse_file without lines 267-280: no module symbol is appended
parse_file_no_module(file_info, content, seed) ==
    LET file_path == file_info.path
        tree == content.tree
        module_qname == module_qname_of(file_path)
        visitor == visit(tree, SymbolVisitor, file_path, build_import_map(tree), seed)
        ex == extract_module_exports(tree, file_path, seed)
        symbols == visitor.symbols \o ex.variable_symbols
    IN  [i \in DOMAIN symbols |-> qualify(symbols[i], module_qname)]

\* parse_file with the module symbol importing only what the module-level
\* assignments use, instead of every value of the import map (line 277)
parse_file_module_level_imports(file_info, content, seed) ==
    LET file_path == file_info.path
        tree == content.tree
        import_map == build_import_map(tree)
        module_qname == module_qname_of(file_path)
        visitor == visit(tree, SymbolVisitor, file_path, import_map, seed)
        ex == extract_module_exports(tree, file_path, seed)
        used == UNION {Range(ex.variable_symbols[i].imports) : i \in DOMAIN ex.variable_symbols}
        module_symbol == [file_path |-> file_path,
                          symbol_type |-> "module",
                          name |-> file_path.name,
                          start_lineno |-> 1,
                          qualified_name |-> module_qname,
                          parent_class |-> None,
                          exports |-> ex.exports,
                          imports |-> set_iter(used, seed)]
        symbols == visitor.symbols \o ex.variable_symbols \o <<module_symbol>>
    IN  [i \in DOMAIN symbols |-> qualify(symbols[i], module_qname)]

parse_file(file_info, content, seed) ==
    LET file_path == file_info.path
        tree == content.tree
        import_map == build_import_map(tree)
        module_qname == module_qname_of(file_path)
        visitor == visit(tree, SymbolVisitor, file_path, import_map, seed)
        ex == extract_module_exports(tree, file_path, seed)
        module_symbol == [file_path |-> file_path,
                          symbol_type |-> "module",
                          name |-> file_path.name,
                          start_lineno |-> 1,
                          qualified_name |-> module_qname,
                          parent_class |-> None,
                          exports |-> ex.exports,
                          imports |-> dict_values(import_map)]
        symbols == visitor.symbols \o ex.variable_symbols \o <<module_symbol>>
    IN  [i \in DOMAIN symbols |-> qualify(symbols[i], module_qname)]

\* ------------------------------------------------------------ add_dependencies
UIDs(symbols) == {symbols[i].UID : i \in DOMAIN symbols}

\* symbol_index = {s['UID']: s for s in symbols}: a later symbol replaces an
\* earlier one of the same UID.  The position of the symbol each UID maps to.
symbol_index(symbols) ==
    [u \in UIDs(symbols) |->
        CHOOSE i \in DOMAIN symbols :
            /\ symbols[i].UID = u
            /\ \A j \in DOMAIN symbols : symbols[j].UID = u => j <= i]

\* add_dependencies with the "else" of line 342 lost: every import is also
\* recorded as external.
add_dependencies_no_else(symbols) ==
    LET index == symbol_index(symbols)
    IN  [i \in DOMAIN symbols |->
            [depends_on |-> sorted({imp \in Range(symbols[i].imports) : imp \in DOMAIN index}),
             used_by |-> sorted({symbols[j].UID : j \in {k \in DOMAIN symbols :
                          \E imp \in Range(symbols[k].imports) :
                              imp \in DOMAIN index /\ index[imp] = i}}),
             ext_dependencies |-> sorted(Range(symbols[i].imports))] @@ symbols[i]]

\* add_dependencies resolving an import only against the other symbols: a
\* symbol's import of its own UID is routed to ext_dependencies.
add_dependencies_not_self(symbols) ==
    LET index == symbol_index(symbols)
        internal(i, imp) == imp \in DOMAIN index /\ imp # symbols[i].UID
    IN  [i \in DOMAIN symbols |->
            [depends_on |-> sorted({imp \in Range(symbols[i].imports) : internal(i, imp)}),
             used_by |-> sorted({symbols[j].UID : j \in {k \in DOMAIN symbols :
                          \E imp \in Range(symbols[k].imports) :
                              internal(k, imp) /\ index[imp] = i}}),
             ext_dependencies |-> sorted({imp \in Range(symbols[i].imports) :
                                            ~internal(i, imp)})] @@ symbols[i]]

\* add_dependencies collecting into lists instead of sets: an import that is
\* repeated is recorded once per occurrence, in the order of imports.
add_dependencies_lists(symbols) ==
    LET index == symbol_index(symbols)
    IN  [i \in DOMAIN symbols |->
            [depends_on |-> SelectSeq(symbols[i].imports, LAMBDA imp : imp \in DOMAIN index),
             used_by |-> sorted({symbols[j].UID : j \in {k \in DOMAIN symbols :
                          \E imp \in Range(symbols[k].imports) :
                              imp \in DOMAIN index /\ index[imp] = i}}),
             ext_dependencies |-> SelectSeq(symbols[i].imports,
                                            LAMBDA imp : imp \notin DOMAIN index)]
            @@ symbols[i]]

\* add_dependencies returning list(symbol_index.values()): of the symbols
\* that share a UID only the last one is returned.
add_dependencies_index_values(symbols) ==
    LET index == symbol_index(symbols)
        linked == [i \in DOMAIN symbols |->
            [depends_on |-> sorted({imp \in Range(symbols[i].imports) : imp \in DOMAIN index}),
             used_by |-> sorted({symbols[j].UID : j \in {k \in DOMAIN symbols :
                          \E imp \in Range(symbols[k].imports) :
                              imp \in DOMAIN index /\ index[imp] = i}}),
             ext_dependencies |-> sorted({imp \in Range(symbols[i].imports) :
                                            imp \notin DOMAIN index})] @@ symbols[i]]
    IN  SelectSeq(linked, LAMBDA sym : \E i \in DOMAIN linked :
                                          linked[i] = sym /\ index[sym.UID] = i)

\* add_dependencies without the initialisation of lines 331-334: what a
\* symbol already holds in the three fields is kept in front of the new
\* entries.
add_dependencies_no_reset(symbols) ==
    LET index == symbol_index(symbols)
        old(i, key) == IF key \in DOMAIN symbols[i] THEN symbols[i][key] ELSE <<>>
    IN  [i \in DOMAIN symbols |->
            [depends_on |-> old(i, "depends_on")
                  \o sorted({imp \in Range(symbols[i].imports) : imp \in DOMAIN index}),
             used_by |-> old(i, "used_by")
                  \o sorted({symbols[j].UID : j \in {k \in DOMAIN symbols :
                          \E imp \in Range(symbols[k].imports) :
                              imp \in DOMAIN index /\ index[imp] = i}}),
             ext_dependencies |-> old(i, "ext_dependencies")
                  \o sorted({imp \in Range(symbols[i].imports) : imp \notin DOMAIN index})]
            @@ symbols[i]]

\* add_dependencies with line 341 adding the import to the importer's own
\* used_by: the back-edge is recorded at the wrong end.
add_dependencies_used_by_self(symbols) ==
    LET index == symbol_index(symbols)
    IN  [i \in DOMAIN symbols |->
            [depends_on |-> sorted({imp \in Range(symbols[i].imports) : imp \in DOMAIN index}),
             used_by |-> sorted({imp \in Range(symbols[i].imports) : imp \in DOMAIN index}),
             ext_dependencies |-> sorted({imp \in Range(symbols[i].imports) :
                                            imp \notin DOMAIN index})] @@ symbols[i]]

add_dependencies(symbols) ==
    LET index == symbol_index(symbols)
        depends_on(i) == {imp \in Range(symbols[i].imports) : imp \in DOMAIN index}
        ext(i) == {imp \in Range(symbols[i].imports) : imp \notin DOMAIN index}
        used_by(i) == {symbols[j].UID : j \in {k \in DOMAIN symbols :
                          \E imp \in Range(symbols[k].imports) :
                              imp \in DOMAIN index /\ index[imp] = i}}
    IN  [i \in DOMAIN symbols |->
            [depends_on |-> sorted(depends_on(i)),
             used_by |-> sorted(used_by(i)),
             ext_dependencies |-> sorted(ext(i))] @@ symbols[i]]

\* ------------------------------------------------- retrieval units and graph
\* retrieval.py build_retrieval_units, as the dicts load_or_create_index
\* returns (dataclasses.asdict of each unit)
get_list(symbol, key) == IF key \in DOMAIN symbol THEN symbol[key] ELSE <<>>

build_retrieval_units(symbols) ==
    [i \in DOMAIN symbols |->
        [uid |-> symbols[i].UID,
         symbol_type |-> symbols[i].symbol_type,
         name |-> symbols[i].name,
         qualified_name |-> symbols[i].qualified_name,
         file_path |-> symbols[i].file_path,
         depends_on |-> get_list(symbols[i], "depends_on"),
         used_by |-> get_list(symbols[i], "used_by"),
         external_dependencies |-> get_list(symbols[i], "ext_dependencies")]]

\* A first pass that registers the module symbols only
uid_to_module_file_modules_only(metadata) ==
    LET keyed == {i \in DOMAIN metadata : metadata[i].symbol_type = "module"}
    IN  [u \in {metadata[i].uid : i \in keyed} |->
            metadata[CHOOSE i \in keyed :
                        /\ metadata[i].uid = u
                        /\ \A j \in keyed : metadata[j].uid = u => j <= i].file_path]

\* arch.py build_module_graph, first pass: uid -> file_path, later symbols
\* replacing earlier ones of the same uid
uid_to_module_file(metadata) ==
    LET keyed == {i \in DOMAIN metadata :
                    "uid" \in DOMAIN metadata[i] /\ "file_path" \in DOMAIN metadata[i]}
    IN  [u \in {metadata[i].uid : i \in keyed} |->
            metadata[CHOOSE i \in keyed :
                        /\ metadata[i].uid = u
                        /\ \A j \in keyed : metadata[j].uid = u => j <= i].file_path]

module_files_of(metadata) ==
    {metadata[i].file_path : i \in {k \in DOMAIN metadata :
        /\ "symbol_type" \in DOMAIN metadata[k]
        /\ metadata[k].symbol_type = "module"
        /\ "file_path" \in DOMAIN metadata[k]}}

\* build_module_graph without the test dst_file != src_file
build_module_graph_self_loops(metadata) ==
    LET map == uid_to_module_file(metadata)
        modules == {i \in DOMAIN metadata : metadata[i].symbol_type = "module"}
        edges == UNION {{<<metadata[i].file_path, map[d]>> :
                            d \in {dep \in Range(get_list(metadata[i], "depends_on")) :
                                     dep \in DOMAIN map}} : i \in modules}
    IN  [nodes |-> module_files_of(metadata) \cup {e[1] : e \in edges} \cup {e[2] : e \in edges},
         edges |-> edges]

\* build_module_graph without lines 47-53: only add_edge makes nodes
build_module_graph_edge_nodes(metadata) ==
    LET map == uid_to_module_file(metadata)
        modules == {i \in DOMAIN metadata : metadata[i].symbol_type = "module"}
        edges == {e \in UNION {{<<metadata[i].file_path, map[d]>> :
                                   d \in {dep \in Range(get_list(metadata[i], "depends_on")) :
                                            dep \in DOMAIN map}} : i \in modules} :
                     e[1] # e[2]}
    IN  [nodes |-> {e[1] : e \in edges} \cup {e[2] : e \in edges},
         edges |-> edges]

\* A networkx DiGraph: add_edge also adds the end points as nodes.
build_module_graph(metadata) ==
    LET map == uid_to_module_file(metadata)
        modules == {i \in DOMAIN metadata :
                        /\ "symbol_type" \in DOMAIN metadata[i]
                        /\ metadata[i].symbol_type = "module"
                        /\ "file_path" \in DOMAIN metadata[i]}
        edges == {e \in UNION {{<<metadata[i].file_path, map[d]>> :
                                   d \in {dep \in Range(get_list(metadata[i], "depends_on")) :
                                            dep \in DOMAIN map}} : i \in modules} :
                     e[1] # e[2]}
    IN  [nodes |-> module_files_of(metadata) \cup {e[1] : e \in edges} \cup {e[2] : e \in edges},
         edges |-> edges]

\* ------------------------------------------------------------- file discovery
path(dirs, name) == [dirs |-> dirs, name |-> name]    \* <dirs>/<name>.py under the root
PathA == path(<<>>, "a")            \* a.py
PathAB == path(<<"a">>, "b")        \* a/b.py

\* os.walk is top-down: the files of the root, then those of its directories.
WalkOrder == <<PathA, PathAB>>
Paths == Range(WalkOrder)

\* The same walk over a root that also has test files and test directories
DiscoveryWalkOrder ==
    <<PathA, path(<<>>, "test_a"), path(<<>>, "a_tests"), path(<<>>, "Test_a"),
      PathAB, path(<<"tests">>, "a"), path(<<"Test">>, "a"), path(<<"tests">>, "a_test")>>

\* parser.py traverse_codebase: os.walk ignores a root it cannot list
traverse_codebase(root, tree) ==
    LET order == IF DOMAIN tree = Paths THEN WalkOrder ELSE DiscoveryWalkOrder
    IN  IF root THEN SelectSeq(order, LAMBDA p : tree[p].kind # "absent") ELSE <<>>

\* str.lower() on the directory names of the model
lower(str) == IF str = "Test" THEN "test" ELSE IF str = "Tests" THEN "tests" ELSE str

\* File names of the model that start with test_ / tests_ or end with
\* _test.py / _tests.py.
TestNames == {"test_a", "tests_a", "a_test", "a_tests"}

\* parser.py is_test_file: the directory test looks for "\tests\" and "\test\"
is_test_file(file_path) ==
    \/ os_sep = "\\" /\ \E i \in DOMAIN file_path.dirs :
                            lower(file_path.dirs[i]) \in {"tests", "test"}
    \/ file_path.name \in TestNames

\* parser.py get_included_files
get_included_files(root, tree) ==
    LET files_list == traverse_codebase(root, tree)
        included == SelectSeq(files_list,
                        LAMBDA p : ~(tree[p].kind = "empty" \/ is_test_file(p)))
    IN  [i \in DOMAIN included |-> [path |-> included[i]]]

\* ------------------------------------------------------ repositories checked
\* from a.b import x, f
ImportXF == ImportFrom(<<"a", "b">>, <<alias(<<"x">>, None), alias(<<"f">>, None)>>)
\* def f(): return x(f)
DefF == FunctionDef("f", {"x", "f"}, <<>>)
\* x = f
AssignX == Assign(<<"x">>, {"f"})
\* class b:
\*     def x(self): return f
ClassB == ClassDef("b", {}, <<FunctionDef("x", {"f"}, <<>>)>>)

Stmts == {ImportXF, DefF, AssignX, ClassB}

\* Line numbers as ast.parse gives them: statement i starts at line 3i - 2,
\* a nested definition on the lines after its parent's.
RECURSIVE at_line(_, _)
at_line(node, n) ==
    IF "lineno" \notin DOMAIN node THEN node
    ELSE IF "body" \in DOMAIN node
    THEN [node EXCEPT !.lineno = n,
                      !.body = [i \in DOMAIN node.body |-> at_line(node.body[i], n + i)]]
    ELSE [node EXCEPT !.lineno = n]

Bodies == UNION {[1..n -> Stmts] : n \in 0..MaxStmts}
SourceFiles == {Source([i \in DOMAIN b |-> at_line(b[i], 3 * i - 2)]) : b \in Bodies}
Contents == {Absent, EmptyFile, BadSyntax} \cup SourceFiles

StmtCount(content) == IF content.kind = "source" THEN Len(content.tree.body) ELSE 0
Repositories == {tree \in [Paths -> Contents] : StmtCount(tree[PathA]) + StmtCount(tree[PathAB]) <= MaxStmts}

\* ------------------------------------------------------------------- state
VARIABLES
    root_exists,   \* the repository root is a readable directory
    fs,            \* the files under the root: path -> content
    pc,            \* where the run is
    runs,          \* completed parse_repository runs
    hashseed,      \* string hash salt of the running process
    files,         \* parse_repository: files
    file_idx,      \* position of the for loop over files
    all_symbols,   \* parse_repository: all_symbols
    error_log,     \* paths printed by the except branch
    link_calls,    \* calls of add_dependencies in this run
    disk,          \* the file at output_path
    prev_disk,     \* the file at output_path when the run started
    result,        \* what parse_repository returned
    module_graph,  \* the graph built from the returned table
    vectorstore,   \* the documents of the index, as ranked for the query
    scope,         \* plan.scope of the request
    retrieved,     \* what retrieve_with_scope returned
    selected_module_ids,   \* the selection handed to module_subgraph
    subgraph,      \* what module_subgraph returned
    subgraph_dot,  \* the file at config.subgraph_dot
    request,       \* the webhook delivery handle_webhook is called with
    background_tasks,   \* BackgroundTasks: the tasks added and not yet run
    response       \* what handle_webhook returned or raised

\* The state of the agents that answer a request
agent_vars == <<vectorstore, scope, retrieved, selected_module_ids, subgraph, subgraph_dot>>

\* The state of the webhook server
webhook_vars == <<request, background_tasks, response>>

vars == <<root_exists, fs, pc, runs, hashseed, files, file_idx, all_symbols,
          error_log, link_calls, disk, prev_disk, result, module_graph,
          vectorstore, scope, retrieved, selected_module_ids, subgraph, subgraph_dot,
          request, background_tasks, response>>

NoFile == [exists |-> FALSE, closed |-> FALSE, symbols |-> <<>>]
NoGraph == [nodes |-> {}, edges |-> {}]

NoDot == [exists |-> FALSE, graph |-> NoGraph]

NoDelivery == [kind |-> "none"]
NoResponse == [kind |-> "none"]

\* No webhook has been delivered
NoWebhook ==
    /\ request = NoDelivery
    /\ background_tasks = <<>>
    /\ response = NoResponse

\* No request has been made
NoRequest ==
    /\ vectorstore = <<>>
    /\ scope = "none"
    /\ retrieved = <<>>
    /\ selected_module_ids = <<>>
    /\ subgraph = NoGraph
    /\ subgraph_dot = NoDot
    /\ NoWebhook

Init ==
    /\ root_exists = TRUE
    /\ fs \in Repositories
    /\ pc = "idle"
    /\ runs = 0
    /\ hashseed = 0
    /\ files = <<>>
    /\ file_idx = 1
    /\ all_symbols = <<>>
    /\ error_log = <<>>
    /\ link_calls = 0
    /\ disk = NoFile
    /\ prev_disk = NoFile
    /\ result = <<>>
    /\ module_graph = NoGraph
    /\ NoRequest

\* The repository root is removed (between runs).
RemoveRoot ==
    /\ pc = "idle"
    /\ root_exists
    /\ root_exists' = FALSE
    /\ fs' = [p \in Paths |-> Absent]
    /\ UNCHANGED <<pc, runs, hashseed, files, file_idx, all_symbols, error_log,
                   link_calls, disk, prev_disk, result, module_graph>>
    /\ UNCHANGED <<agent_vars, webhook_vars>>

\* A process starts and calls parse_repository(repo_name, output_path).
StartRun ==
    /\ pc = "idle"
    /\ runs < MaxRuns
    /\ pc' = "discover"
    /\ hashseed' \in HashSeeds
    /\ files' = <<>>
    /\ file_idx' = 1
    /\ all_symbols' = <<>>
    /\ error_log' = <<>>
    /\ link_calls' = 0
    /\ prev_disk' = disk
    /\ UNCHANGED <<root_exists, fs, runs, disk, result, module_graph>>
    /\ UNCHANGED <<agent_vars, webhook_vars>>

\* parse_repository line 372: files = get_included_files(repo_name)
Discover ==
    /\ pc = "discover"
    /\ files' = get_included_files(root_exists, fs)
    /\ file_idx' = 1
    /\ all_symbols' = <<>>
    /\ pc' = "parse"
    /\ UNCHANGED <<root_exists, fs, runs, hashseed, error_log, link_calls, disk,
                   prev_disk, result, module_graph>>
    /\ UNCHANGED <<agent_vars, webhook_vars>>

\* The loop without its try/except: the exception of parse_file leaves
\* parse_repository.
ParseFile_no_except ==
    /\ pc = "parse"
    /\ file_idx <= Len(files)
    /\ LET file_info == files[file_idx]
           content == fs[file_info.path]
       IN  IF parse_raises(content)
           THEN /\ pc' = "aborted"
                /\ UNCHANGED <<all_symbols, file_idx>>
           ELSE /\ all_symbols' = all_symbols \o parse_file(file_info, content, hashseed)
                /\ file_idx' = file_idx + 1
                /\ UNCHANGED pc
    /\ UNCHANGED <<root_exists, fs, runs, hashseed, files, error_log, link_calls, disk,
                   prev_disk, result, module_graph>>
    /\ UNCHANGED <<agent_vars, webhook_vars>>

\* parse_repository lines 379-384: one iteration of the loop over files
ParseFile ==
    /\ pc = "parse"
    /\ file_idx <= Len(files)
    /\ LET file_info == files[file_idx]
           content == fs[file_info.path]
       IN  IF parse_raises(content)
           THEN /\ error_log' = Append(error_log, file_info.path)
                /\ UNCHANGED all_symbols
           ELSE /\ all_symbols' = all_symbols \o parse_file(file_info, content, hashseed)
                /\ UNCHANGED error_log
    /\ file_idx' = file_idx + 1
    /\ UNCHANGED <<root_exists, fs, pc, runs, hashseed, files, link_calls, disk,
                   prev_disk, result, module_graph>>
    /\ UNCHANGED <<agent_vars, webhook_vars>>

\* add_dependencies called inside the loop, after the first file.
Link_in_loop ==
    /\ pc = "parse"
    /\ file_idx > 1 \/ files = <<>>
    /\ all_symbols' = add_dependencies(all_symbols)
    /\ link_calls' = link_calls + 1
    /\ pc' = "save"
    /\ UNCHANGED <<root_exists, fs, runs, hashseed, files, file_idx, error_log, disk,
                   prev_disk, result, module_graph>>
    /\ UNCHANGED <<agent_vars, webhook_vars>>

\* parse_repository line 389: all_symbols = add_dependencies(all_symbols)
Link ==
    /\ pc = "parse"
    /\ file_idx > Len(files)
    /\ all_symbols' = add_dependencies(all_symbols)
    /\ link_calls' = link_calls + 1
    /\ pc' = "save"
    /\ UNCHANGED <<root_exists, fs, runs, hashseed, files, file_idx, error_log, disk,
                   prev_disk, result, module_graph>>
    /\ UNCHANGED <<agent_vars, webhook_vars>>

\* parse_repository line 405: output_path.open("w") truncates the file
OpenOutput ==
    /\ pc = "save"
    /\ disk' = [exists |-> TRUE, closed |-> FALSE, symbols |-> <<>>]
    /\ pc' = "dump"
    /\ UNCHANGED <<root_exists, fs, runs, hashseed, files, file_idx, all_symbols,
                   error_log, link_calls, prev_disk, result, module_graph>>
    /\ UNCHANGED <<agent_vars, webhook_vars>>

\* parse_repository lines 406-410: json.dump, close, return result
DumpJson ==
    /\ pc = "dump"
    /\ disk' = [exists |-> TRUE, closed |-> TRUE, symbols |-> all_symbols]
    /\ result' = all_symbols
    /\ pc' = "graph"
    /\ UNCHANGED <<root_exists, fs, runs, hashseed, files, file_idx, all_symbols,
                   error_log, link_calls, prev_disk, module_graph>>
    /\ UNCHANGED <<agent_vars, webhook_vars>>

\* pipeline.py initialize_project lines 32-48: retrieval units, then graph()
BuildGraph ==
    /\ pc = "graph"
    /\ module_graph' = build_module_graph(build_retrieval_units(result))
    /\ pc' = "idle"
    /\ runs' = runs + 1
    /\ hashseed' = 0
    /\ UNCHANGED <<root_exists, fs, files, file_idx, all_symbols, error_log,
                   link_calls, disk, prev_disk, result>>
    /\ UNCHANGED <<agent_vars, webhook_vars>>

\* The process is killed: its memory is gone.  While json.dump is writing,
\* the file holds what was written so far.
Interrupt ==
    /\ pc \in {"discover", "parse", "save", "dump", "graph"}
    /\ pc' = "crashed"
    /\ IF pc = "dump"
       THEN \E k \in 0..Len(all_symbols) :
                disk' = [exists |-> TRUE, closed |-> FALSE,
                         symbols |-> SubSeq(all_symbols, 1, k)]
       ELSE UNCHANGED disk
    /\ hashseed' = 0
    /\ files' = <<>>
    /\ file_idx' = 1
    /\ all_symbols' = <<>>
    /\ error_log' = <<>>
    /\ link_calls' = 0
    /\ UNCHANGED <<root_exists, fs, runs, prev_disk, result, module_graph>>
    /\ UNCHANGED <<agent_vars, webhook_vars>>

Next ==
    \/ RemoveRoot
    \/ StartRun
    \/ Discover
    \/ ParseFile
    \/ Link
    \/ OpenOutput
    \/ DumpJson
    \/ BuildGraph
    \/ Interrupt

Spec == Init /\ [][Next]_vars

\* ------------------------------------------------- discovery on its own
DiscoveryPaths == Range(DiscoveryWalkOrder)

\* A file is missing, has no byte, or has some
DiscoveryTrees == [DiscoveryPaths -> {Absent, EmptyFile, Source(<<>>)}]

InitDiscover ==
    /\ root_exists = TRUE
    /\ fs \in DiscoveryTrees
    /\ pc = "walk"
    /\ runs = 0
    /\ hashseed = 0
    /\ files = <<>>
    /\ file_idx = 1
    /\ all_symbols = <<>>
    /\ error_log = <<>>
    /\ link_calls = 0
    /\ disk = NoFile
    /\ prev_disk = NoFile
    /\ result = <<>>
    /\ module_graph = NoGraph
    /\ NoRequest

\* files = get_included_files(repo_name)
GetIncludedFiles ==
    /\ pc = "walk"
    /\ files' = get_included_files(root_exists, fs)
    /\ pc' = "walked"
    /\ UNCHANGED <<root_exists, fs, runs, hashseed, file_idx, all_symbols, error_log,
                   link_calls, disk, prev_disk, result, module_graph>>
    /\ UNCHANGED <<agent_vars, webhook_vars>>

NextDiscover == GetIncludedFiles

SpecDiscover == InitDiscover /\ [][NextDiscover]_vars

\* ------------------------------------------------------ parse_file on its own
\* Definitions without a body: def f, def x, class b
Leaves == {FunctionDef("f", {}, <<>>), FunctionDef("x", {}, <<>>), ClassDef("b", {}, <<>>)}

\* Definitions nested up to d deep: a body is empty, one definition, or one
\* definition followed by a leaf
RECURSIVE Defs(_)
Defs(d) ==
    IF d = 0 THEN Leaves
    ELSE LET inner == Defs(d - 1)
             bodies == {<<>>} \cup {<<t>> : t \in inner}
                          \cup {<<t, l>> : t \in inner, l \in Leaves}
         IN  {[l EXCEPT !.body = b] : l \in Leaves, b \in bodies}

\* Files of one nested definition, alone or followed by a leaf or by x = f
ParseBodies ==
    {<<t>> : t \in Defs(MaxDepth)}
        \cup {<<t, l>> : t \in Defs(MaxDepth), l \in Leaves \cup {AssignX}}

\* Line numbers: the first statement at line 1, the second one after all the
\* lines of the first (a definition has no more than 3 * (MaxDepth + 1) lines)
ParseFiles ==
    {Source(IF Len(b) = 1 THEN <<at_line(b[1], 1)>>
            ELSE <<at_line(b[1], 1), at_line(b[2], 3 * MaxDepth + 4)>>) : b \in ParseBodies}

InitParse ==
    /\ root_exists = TRUE
    /\ \E p \in Paths, content \in ParseFiles :
          /\ fs = [q \in Paths |-> IF q = p THEN content ELSE Absent]
          /\ files = <<[path |-> p]>>
    /\ pc = "file"
    /\ runs = 0
    /\ hashseed = 0
    /\ file_idx = 1
    /\ all_symbols = <<>>
    /\ error_log = <<>>
    /\ link_calls = 0
    /\ disk = NoFile
    /\ prev_disk = NoFile
    /\ result = <<>>
    /\ module_graph = NoGraph
    /\ NoRequest

\* symbols = parse_file(file_info)
ParseOneFile ==
    /\ pc = "file"
    /\ all_symbols' = parse_file(files[1], fs[files[1].path], hashseed)
    /\ pc' = "parsed"
    /\ UNCHANGED <<root_exists, fs, runs, hashseed, files, file_idx, error_log,
                   link_calls, disk, prev_disk, result, module_graph>>
    /\ UNCHANGED <<agent_vars, webhook_vars>>

NextParse == ParseOneFile

SpecParse == InitParse /\ [][NextParse]_vars

\* ------------------------------------------ runs over a changing repository
\* One-statement files: a.py importing from a/b.py, a/b.py defining f
RerunContents == {Absent, BadSyntax, Source(<<at_line(ImportXF, 1)>>), Source(<<at_line(DefF, 1)>>)}

InitRerun ==
    /\ Init
    /\ \A p \in Paths : fs[p] \in RerunContents

\* Between two runs a file is written, rewritten or removed.
ChangeFile ==
    /\ pc = "idle"
    /\ root_exists
    /\ runs >= 1
    /\ \E p \in Paths, content \in RerunContents :
          /\ content # fs[p]
          /\ fs' = [fs EXCEPT ![p] = content]
    /\ UNCHANGED <<root_exists, pc, runs, hashseed, files, file_idx, all_symbols,
                   error_log, link_calls, disk, prev_disk, result, module_graph>>
    /\ UNCHANGED <<agent_vars, webhook_vars>>

NextRerun ==
    \/ ChangeFile
    \/ Next

SpecRerun == InitRerun /\ [][NextRerun]_vars

\* ------------------------------------------- the linker on arbitrary tables
TableUIDs == {<<"a">>, <<"a", "b">>}
TableTargets == TableUIDs \cup {<<"x">>}
ImportLists == UNION {[1..n -> TableTargets] : n \in 0..MaxImports}
TableSymbols ==
    {[UID |-> u, qualified_name |-> u, name |-> u[Len(u)], symbol_type |-> "function",
      file_path |-> PathA, parent_class |-> None, start_lineno |-> 1, imports |-> l] :
        u \in TableUIDs, l \in ImportLists}
Tables == UNION {[1..n -> TableSymbols] : n \in 0..MaxSyms}

InitLink ==
    /\ root_exists = TRUE
    /\ fs = [p \in Paths |-> Absent]
    /\ pc = "table"
    /\ runs = 0
    /\ hashseed = 0
    /\ files = <<>>
    /\ file_idx = 1
    /\ all_symbols \in Tables
    /\ error_log = <<>>
    /\ link_calls = 0
    /\ disk = NoFile
    /\ prev_disk = NoFile
    /\ result = <<>>
    /\ module_graph = NoGraph
    /\ NoRequest

\* add_dependencies(symbols) on the table
LinkTable ==
    /\ pc = "table"
    /\ all_symbols' = add_dependencies(all_symbols)
    /\ link_calls' = link_calls + 1
    /\ pc' = "linked"
    /\ UNCHANGED <<root_exists, fs, runs, hashseed, files, file_idx, error_log, disk,
                   prev_disk, result, module_graph>>
    /\ UNCHANGED <<agent_vars, webhook_vars>>

NextLink == LinkTable

SpecLink == InitLink /\ [][NextLink]_vars

\* ------------------------------------- the linker on a table it has linked
\* add_dependencies(add_dependencies(symbols)): the second call
RelinkTable ==
    /\ pc = "linked"
    /\ all_symbols' = add_dependencies(all_symbols)
    /\ link_calls' = link_calls + 1
    /\ pc' = "relinked"
    /\ UNCHANGED <<root_exists, fs, runs, hashseed, files, file_idx, error_log, disk,
                   prev_disk, result, module_graph>>
    /\ UNCHANGED <<agent_vars, webhook_vars>>

NextRelink ==
    \/ LinkTable
    \/ RelinkTable

SpecRelink == InitLink /\ [][NextRelink]_vars

\* ---------------------------------------------------------- scoped retrieval
\* qa_agent.py, documentation_agent.py and embedding.py: the same three tables
\* The eligibility table with methods eligible for the symbol scope
SCOPE_ELIGIBILITY_with_methods ==
    [symbol |-> {"function", "class", "method", "variable"},
     module |-> {"module"},
     system |-> {"module"}]

SCOPE_ELIGIBILITY ==
    [symbol |-> {"function", "class", "variable"},
     module |-> {"module"},
     system |-> {"module"}]

RECALL_K_BY_SCOPE == [symbol |-> 10, module |-> 30, system |-> 50]

FINAL_K_BY_SCOPE == [symbol |-> 15, module |-> 10, system |-> 10]

\* dict.get(key, default)
get(d, key, default) == IF key \in DOMAIN d THEN d[key] ELSE default

\* s[:k]
first(s, k) == SubSeq(s, 1, IF k < Len(s) THEN k ELSE Len(s))

\* FAISS similarity_search_with_score: the k nearest documents, nearest first;
\* the store is kept here in the order of the distances to the query.
similarity_search_with_score(store, k) ==
    [i \in DOMAIN first(store, k) |-> [doc |-> store[i].doc, score |-> store[i].score]]

\* embedding.py search
search(store, k) ==
    LET docs_and_scores == similarity_search_with_score(store, k)
    IN  [i \in DOMAIN docs_and_scores |->
            [score |-> docs_and_scores[i].score,
             symbol |-> docs_and_scores[i].doc.metadata]]

\* r["symbol"]["symbol_type"] of a candidate without that key
filter_raises(sc, store) ==
    \E i \in DOMAIN search(store, get(RECALL_K_BY_SCOPE, sc, 30)) :
        "symbol_type" \notin DOMAIN search(store, get(RECALL_K_BY_SCOPE, sc, 30))[i].symbol

\* retrieve_with_scope that returns the candidates it filtered, uncut
retrieve_with_scope_uncut(sc, store) ==
    LET candidates == search(store, get(RECALL_K_BY_SCOPE, sc, 30))
    IN  SelectSeq(candidates,
                  LAMBDA r : r.symbol.symbol_type \in get(SCOPE_ELIGIBILITY, sc, {}))

\* retrieve_with_scope that cuts the candidates before it filters them
retrieve_with_scope_cut_first(sc, store) ==
    LET candidates == search(store, get(RECALL_K_BY_SCOPE, sc, 30))
    IN  SelectSeq(first(candidates, get(FINAL_K_BY_SCOPE, sc, 5)),
                  LAMBDA r : r.symbol.symbol_type \in get(SCOPE_ELIGIBILITY, sc, {}))

\* qa_agent.py retrieve_with_scope (documentation_agent.py has the same text)
retrieve_with_scope(sc, store) ==
    LET candidates == search(store, get(RECALL_K_BY_SCOPE, sc, 30))
        eligible == SelectSeq(candidates,
                        LAMBDA r : r.symbol.symbol_type \in get(SCOPE_ELIGIBILITY, sc, {}))
    IN  IF eligible = <<>> THEN <<>>
        ELSE first(eligible, get(FINAL_K_BY_SCOPE, sc, 5))

\* embedding.py ScopeRetriever._get_relevant_documents
get_relevant_documents(sc, store) ==
    LET recall_k == get(RECALL_K_BY_SCOPE, sc, 30)
        candidates == similarity_search_with_score(store, recall_k)
        eligible_types == get(SCOPE_ELIGIBILITY, sc, {})
        eligible == SelectSeq(candidates,
                        LAMBDA c : get(c.doc.metadata, "symbol_type", None) \in eligible_types)
    IN  IF eligible = <<>> THEN <<>>
        ELSE LET final_k == get(FINAL_K_BY_SCOPE, sc, 5)
             IN  [i \in DOMAIN first(eligible, final_k) |-> eligible[i].doc]

\* The stores checked: document i is the i-th nearest to the query; the
\* types come in up to three runs (such as 5 modules, 3 functions, 4 modules).
SymbolTypes == {"function", "class", "method", "variable", "module"}
Scopes == {"symbol", "module", "system", "none"}

ranked(types, lens) ==
    LET type_at(i) == IF i <= lens[1] THEN types[1]
                      ELSE IF i <= lens[1] + lens[2] THEN types[2] ELSE types[3]
    IN  [i \in 1..(lens[1] + lens[2] + lens[3]) |->
            [doc |-> [metadata |-> [uid |-> i, symbol_type |-> type_at(i)]],
             score |-> i]]

Stores ==
    {ranked(types, lens) :
        types \in [1..3 -> SymbolTypes],
        lens \in {l \in [1..3 -> 0..MaxDocs] : l[1] + l[2] + l[3] <= MaxDocs}}

InitRetrieve ==
    /\ root_exists = TRUE
    /\ fs = [p \in Paths |-> Absent]
    /\ pc = "request"
    /\ runs = 0
    /\ hashseed = 0
    /\ files = <<>>
    /\ file_idx = 1
    /\ all_symbols = <<>>
    /\ error_log = <<>>
    /\ link_calls = 0
    /\ disk = NoFile
    /\ prev_disk = NoFile
    /\ result = <<>>
    /\ module_graph = NoGraph
    /\ vectorstore \in Stores
    /\ scope \in Scopes
    /\ retrieved = <<>>
    /\ selected_module_ids = <<>>
    /\ subgraph = NoGraph
    /\ subgraph_dot = NoDot
    /\ NoWebhook

pipeline_vars == <<root_exists, fs, runs, hashseed, files, file_idx, all_symbols,
                   error_log, link_calls, disk, prev_disk, result, module_graph>>

\* QAAgent.run with a retrieval that fails when nothing is eligible
QARun_raises_on_empty ==
    /\ pc = "request"
    /\ IF filter_raises(scope, vectorstore) \/ retrieve_with_scope(scope, vectorstore) = <<>>
       THEN pc' = "raised" /\ UNCHANGED retrieved
       ELSE /\ retrieved' = retrieve_with_scope(scope, vectorstore)
            /\ pc' = "ask_llm"
    /\ UNCHANGED <<pipeline_vars, webhook_vars, vectorstore, scope, selected_module_ids, subgraph, subgraph_dot>>

\* qa_agent.py QAAgent.run lines 82-100
QARun ==
    /\ pc = "request"
    /\ IF filter_raises(scope, vectorstore)
       THEN pc' = "raised" /\ UNCHANGED retrieved
       ELSE /\ retrieved' = retrieve_with_scope(scope, vectorstore)
            /\ pc' = IF retrieved' = <<>> THEN "no_evidence" ELSE "ask_llm"
    /\ UNCHANGED <<pipeline_vars, webhook_vars, vectorstore, scope, selected_module_ids, subgraph, subgraph_dot>>

\* documentation_agent.py DocumentationAgent.run lines 84-98
DocumentationRun ==
    /\ pc = "request"
    /\ IF filter_raises(scope, vectorstore)
       THEN pc' = "raised" /\ UNCHANGED retrieved
       ELSE /\ retrieved' = retrieve_with_scope(scope, vectorstore)
            /\ pc' = "write_documentation"
    /\ UNCHANGED <<pipeline_vars, webhook_vars, vectorstore, scope, selected_module_ids, subgraph, subgraph_dot>>

\* ScopeRetriever._get_relevant_documents called by a retriever chain
GetRelevantDocuments ==
    /\ pc = "request"
    /\ retrieved' = get_relevant_documents(scope, vectorstore)
    /\ pc' = "documents"
    /\ UNCHANGED <<pipeline_vars, webhook_vars, vectorstore, scope, selected_module_ids, subgraph, subgraph_dot>>

NextRetrieve ==
    \/ QARun
    \/ DocumentationRun
    \/ GetRelevantDocuments

SpecRetrieve == InitRetrieve /\ [][NextRetrieve]_vars

\* ------------------------------------------------------- module diagrams
\* networkx graph.subgraph(nbunch).copy(): the nodes of nbunch that are in the
\* graph and the edges between them
induced_subgraph(graph, nbunch) ==
    [nodes |-> {n \in graph.nodes : n \in Range(nbunch)},
     edges |-> {e \in graph.edges : e[1] \in Range(nbunch) /\ e[2] \in Range(nbunch)}]

\* A subgraph that keeps every edge leaving a selected node
module_subgraph_out_edges(graph, selection) ==
    LET selected_paths == get(selection, "selected_modules", <<>>)
        edges == {e \in graph.edges : e[1] \in Range(selected_paths)}
    IN  IF selected_paths = <<>> THEN NoGraph
        ELSE [nodes |-> {n \in graph.nodes : n \in Range(selected_paths)}
                            \cup {e[2] : e \in edges},
              edges |-> edges]

\* arch.py module_subgraph: the graph it returns
module_subgraph(graph, selection) ==
    LET selected_paths == get(selection, "selected_modules", <<>>)
    IN  IF selected_paths = <<>> THEN NoGraph
        ELSE induced_subgraph(graph, selected_paths)

\* The graphs checked: module files as nodes, no edge from a file to itself
PathB == path(<<>>, "b")            \* b.py
PathC == path(<<>>, "c")            \* c.py, a file of no graph
GraphPaths == {PathA, PathAB, PathB}
Graphs ==
    {[nodes |-> N, edges |-> E] :
        N \in SUBSET GraphPaths,
        E \in SUBSET {e \in GraphPaths \X GraphPaths : e[1] # e[2]}}

ModuleGraphs == {g \in Graphs : \A e \in g.edges : e[1] \in g.nodes /\ e[2] \in g.nodes}

\* The output of the module selector, with and without its list
Selections ==
    {[confidence |-> 1]}
        \cup {[selected_modules |-> l, confidence |-> 1] :
                l \in UNION {[1..n -> GraphPaths \cup {PathC}] : n \in 0..MaxSelected}}

InitDiagram ==
    /\ root_exists = TRUE
    /\ fs = [p \in Paths |-> Absent]
    /\ pc = "diagram"
    /\ runs = 0
    /\ hashseed = 0
    /\ files = <<>>
    /\ file_idx = 1
    /\ all_symbols = <<>>
    /\ error_log = <<>>
    /\ link_calls = 0
    /\ disk = NoFile
    /\ prev_disk = NoFile
    /\ result = <<>>
    /\ module_graph \in ModuleGraphs
    /\ vectorstore = <<>>
    /\ scope = "module"
    /\ retrieved = <<>>
    /\ selected_module_ids \in Selections
    /\ subgraph = NoGraph
    /\ subgraph_dot = NoDot
    /\ NoWebhook

\* main.py lines 167-172: module_subgraph(module_graph, ..., selected_modules,
\* config.subgraph_dot); export_to_dot writes the file unless the selection
\* is empty
ModuleSubgraph ==
    /\ pc = "diagram"
    /\ subgraph' = module_subgraph(module_graph, selected_module_ids)
    /\ subgraph_dot' = IF get(selected_module_ids, "selected_modules", <<>>) = <<>>
                       THEN subgraph_dot
                       ELSE [exists |-> TRUE, graph |-> subgraph']
    /\ pc' = "drawn"
    /\ UNCHANGED <<pipeline_vars, webhook_vars, vectorstore, scope, retrieved, selected_module_ids>>

NextDiagram == ModuleSubgraph

SpecDiagram == InitDiagram /\ [][NextDiagram]_vars

\* ----------------------------------------------------------- webhook server
\* A commit message is the sequence of its pieces ("[CodeBot]" is one piece):
\* str.startswith compares the leading pieces.
startswith(str, prefix) ==
    Len(str) >= Len(prefix) /\ SubSeq(str, 1, Len(prefix)) = prefix

CodeBotPrefix == <<"[CodeBot]">>

\* pipeline.py line 300: the message incremental_update commits the docs with
CodeBotMessage == <<"[CodeBot]", " Auto-generated documentation update">>

\* The loop over payload["commits"] that does not skip the CodeBot commits
RECURSIVE collect_files_no_skip(_, _)
collect_files_no_skip(commits, acc) ==
    IF commits = <<>> THEN acc
    ELSE LET commit == Head(commits)
             message == get(commit, "message", <<>>)
             seen == [acc EXCEPT !.codebot_commit =
                                    @ \/ startswith(message, CodeBotPrefix)]
         IN  collect_files_no_skip(Tail(commits),
                 [seen EXCEPT
                     !.modified_files = @ \cup Range(get(commit, "added", <<>>))
                                          \cup Range(get(commit, "modified", <<>>)),
                     !.removed_files = @ \cup Range(get(commit, "removed", <<>>))])

\* handle_webhook lines 171-185: the loop over payload["commits"]
RECURSIVE collect_files(_, _)
collect_files(commits, acc) ==
    IF commits = <<>> THEN acc
    ELSE LET commit == Head(commits)
             message == get(commit, "message", <<>>)
         IN  IF startswith(message, CodeBotPrefix)
             THEN collect_files(Tail(commits), [acc EXCEPT !.codebot_commit = TRUE])
             ELSE collect_files(Tail(commits),
                      [acc EXCEPT
                          !.modified_files = @ \cup Range(get(commit, "added", <<>>))
                                               \cup Range(get(commit, "modified", <<>>)),
                          !.removed_files = @ \cup Range(get(commit, "removed", <<>>))])

\* background_tasks.add_task(process_webhook_background, ...): list(set) is
\* kept as the set of its elements
task(project_name, modified_files, removed_files, full_rebuild) ==
    [project_name |-> project_name, modified_files |-> modified_files,
     removed_files |-> removed_files, full_rebuild |-> full_rebuild]

\* handle_webhook: the response and the tasks added.  req.secret is
\* os.getenv("WEBHOOK_SECRET") being set, req.signature what verify_signature
\* finds, req.project the project the repository was matched to ("" if none),
\* req.event the x-github-event header.
handle_webhook(req) ==
    IF ~req.secret
    THEN [response |-> [status_code |-> 500], tasks |-> <<>>]
    ELSE IF req.signature # "valid"
    THEN [response |-> [status_code |-> 403], tasks |-> <<>>]
    ELSE IF req.project = ""
    THEN [response |-> [status |-> "ignored", reason |-> "unknown repository"],
          tasks |-> <<>>]
    ELSE LET github_event == IF req.event = "missing" THEN "push" ELSE req.event
             collected == collect_files(get(req.payload, "commits", <<>>),
                              [modified_files |-> {}, removed_files |-> {},
                               codebot_commit |-> FALSE])
             no_files == collected.modified_files = {} /\ collected.removed_files = {}
         IN  IF github_event = "ping"
             THEN [response |-> [status |-> "accepted", project |-> req.project,
                                 action |-> "initial_ping_analysis"],
                   tasks |-> <<task(req.project, {}, {}, TRUE)>>]
             ELSE IF github_event # "push"
             THEN [response |-> [status |-> "ignored", reason |-> "unhandled event type"],
                   tasks |-> <<>>]
             ELSE IF collected.codebot_commit /\ no_files
             THEN [response |-> [status |-> "ignored",
                                 reason |-> "auto-generated bot commit"],
                   tasks |-> <<>>]
             ELSE IF no_files
             THEN [response |-> [status |-> "ignored", reason |-> "no file changes"],
                   tasks |-> <<>>]
             ELSE [response |-> [status |-> "accepted", project |-> req.project,
                                 files |-> collected.modified_files,
                                 removed |-> collected.removed_files],
                   tasks |-> <<task(req.project, collected.modified_files,
                                    collected.removed_files, FALSE)>>]

\* The deliveries checked
Messages == {CodeBotMessage, <<"Revert ", "[CodeBot]", " docs">>, <<"Update a.py">>}
Changes ==
    {[added |-> <<>>, modified |-> <<>>, removed |-> <<>>],
     [added |-> <<"a.py">>, modified |-> <<>>, removed |-> <<>>],
     [added |-> <<>>, modified |-> <<"a.py">>, removed |-> <<>>],
     [added |-> <<>>, modified |-> <<>>, removed |-> <<"a.py">>],
     [added |-> <<"docs/a.py.md">>, modified |-> <<"docs/CODEBASE_SUMMARY.md">>,
      removed |-> <<>>]}
Commits == {[message |-> m] @@ c : m \in Messages, c \in Changes}
Payloads ==
    {[repository |-> "p"]}
        \cup {[repository |-> "p", commits |-> l] :
                  l \in UNION {[1..n -> Commits] : n \in 0..MaxCommits}}
Deliveries ==
    [kind : {"delivery"}, secret : BOOLEAN, signature : {"missing", "wrong", "valid"},
     project : {"", "p"}, event : {"missing", "ping", "push", "issues"},
     payload : Payloads]

\* The push GitHub reports after incremental_update has pushed its commit
\* (pipeline.py lines 293-308: git add docs/, commit, push)
CodeBotPush(project) ==
    [kind |-> "delivery", secret |-> TRUE, signature |-> "valid", project |-> project,
     event |-> "push",
     payload |-> [repository |-> "p",
                  commits |-> <<[message |-> CodeBotMessage,
                                 added |-> <<"docs/a.py.md">>,
                                 modified |-> <<"docs/CODEBASE_SUMMARY.md">>,
                                 removed |-> <<>>]>>]]

InitWebhook ==
    /\ root_exists = TRUE
    /\ fs = [p \in Paths |-> Absent]
    /\ pc = "received"
    /\ runs = 0
    /\ hashseed = 0
    /\ files = <<>>
    /\ file_idx = 1
    /\ all_symbols = <<>>
    /\ error_log = <<>>
    /\ link_calls = 0
    /\ disk = NoFile
    /\ prev_disk = NoFile
    /\ result = <<>>
    /\ module_graph = NoGraph
    /\ vectorstore = <<>>
    /\ scope = "none"
    /\ retrieved = <<>>
    /\ selected_module_ids = <<>>
    /\ subgraph = NoGraph
    /\ subgraph_dot = NoDot
    /\ request \in Deliveries
    /\ background_tasks = <<>>
    /\ response = NoResponse

\* webhook_server.py handle_webhook
HandleWebhook ==
    /\ pc = "received"
    /\ response' = handle_webhook(request).response
    /\ background_tasks' = background_tasks \o handle_webhook(request).tasks
    /\ pc' = "responded"
    /\ UNCHANGED <<pipeline_vars, agent_vars, request>>

\* process_webhook_background: incremental_update runs; it ends with a docs
\* commit pushed to the repository, or with nothing pushed (no git remote,
\* nothing to commit, a failed push, an exception that is logged)
ProcessWebhookBackground ==
    /\ pc = "responded"
    /\ background_tasks # <<>>
    /\ background_tasks' = Tail(background_tasks)
    /\ \E pushed \in BOOLEAN : pc' = IF pushed THEN "pushed" ELSE "finished"
    /\ UNCHANGED <<pipeline_vars, agent_vars, request, response>>

\* GitHub delivers the push event of the commit the update pushed
DeliverCodeBotPush ==
    /\ pc = "pushed"
    /\ request' = CodeBotPush(request.project)
    /\ response' = NoResponse
    /\ pc' = "received"
    /\ UNCHANGED <<pipeline_vars, agent_vars, background_tasks>>

NextWebhook ==
    \/ HandleWebhook
    \/ ProcessWebhookBackground
    \/ DeliverCodeBotPush

SpecWebhook == InitWebhook /\ [][NextWebhook]_vars

\* ------------------------------------------------------------------ properties
\* all_symbols is a table add_dependencies returned
Linked == link_calls > 0

DepFields == {"depends_on", "used_by", "ext_dependencies"}

\* A symbol as parse_file returned it
Unlinked(symbol) == [k \in DOMAIN symbol \ DepFields |-> symbol[k]]

\* The files the loop has been through, and what each must have contributed
Processed == {files[k].path : k \in 1..(file_idx - 1)}
OfFile(symbols, p) == SelectSeq(symbols, LAMBDA sym : sym.file_path = p)

\* C1: in the table add_dependencies returns, B.uid is in A.depends_on if and
\* only if A.uid is in B.used_by, for all symbols A and B.
C1_EdgeSymmetry ==
    Linked =>
        \A i, j \in DOMAIN all_symbols :
            (all_symbols[j].UID \in Range(all_symbols[i].depends_on))
                <=> (all_symbols[i].UID \in Range(all_symbols[j].used_by))

\* C2: after linking, every string of A.imports is in exactly one of
\* A.depends_on and A.ext_dependencies, and the two lists hold nothing that
\* is not in A.imports.
C2_PartitionCompleteness ==
    Linked =>
        \A i \in DOMAIN all_symbols :
            LET A == all_symbols[i]
            IN  /\ \A imp \in Range(A.imports) :
                      (imp \in Range(A.depends_on)) # (imp \in Range(A.ext_dependencies))
                /\ Range(A.depends_on) \cup Range(A.ext_dependencies) \subseteq Range(A.imports)

\* A linked symbol with a resolved and an unresolved import
C2_Witness ==
    /\ Linked
    /\ \E i \in DOMAIN all_symbols :
          /\ all_symbols[i].depends_on # <<>>
          /\ all_symbols[i].ext_dependencies # <<>>

\* C3: in a snapshot parse_repository returns, two distinct symbols of type
\* function, class, method or variable share a qualified_name only if both
\* are assignments of the same module-level variable.
C3_Uniqueness ==
    \A i, j \in DOMAIN result :
        (/\ i # j
         /\ result[i].symbol_type # "module"
         /\ result[j].symbol_type # "module"
         /\ result[i].qualified_name = result[j].qualified_name)
        => /\ result[i].symbol_type = "variable"
           /\ result[j].symbol_type = "variable"
           /\ result[i].file_path = result[j].file_path
           /\ result[i].name = result[j].name

\* C4: after linking, no entry of an ext_dependencies list is the uid of a
\* symbol of the table, and every entry of a depends_on list is one.
C4_ExternalMeansUnknown ==
    Linked =>
        \A i \in DOMAIN all_symbols :
            /\ \A X \in Range(all_symbols[i].ext_dependencies) : X \notin UIDs(all_symbols)
            /\ \A d \in Range(all_symbols[i].depends_on) : d \in UIDs(all_symbols)

\* A linked table where one symbol depends on another one and a symbol
\* imports its own uid
C4_Witness ==
    /\ Linked
    /\ \E i, j \in DOMAIN all_symbols :
          /\ i # j
          /\ all_symbols[i].UID # all_symbols[j].UID
          /\ all_symbols[j].UID \in Range(all_symbols[i].depends_on)
          /\ all_symbols[j].UID \in Range(all_symbols[j].imports)

\* C5: a file whose parsing raises never aborts parse_repository: the loop
\* goes on, the failing file contributes no symbol and is logged, and every
\* file that parses contributes all the symbols parse_file returns for it.
C5_FileFailureIsolated ==
    /\ pc # "aborted"
    /\ pc \in {"parse", "save", "dump", "graph"} =>
          \A p \in Processed :
              IF parse_raises(fs[p])
              THEN /\ OfFile(all_symbols, p) = <<>>
                   /\ p \in Range(error_log)
              ELSE /\ [k \in DOMAIN OfFile(all_symbols, p) |-> Unlinked(OfFile(all_symbols, p)[k])]
                        = parse_file([path |-> p], fs[p], hashseed)
                   /\ p \notin Range(error_log)

\* The first file raised and the second one was parsed and linked
C5_Witness ==
    /\ pc = "graph"
    /\ error_log = <<PathA>>
    /\ \E i \in DOMAIN result : result[i].file_path = PathAB /\ result[i].symbol_type = "function"

\* C6: with the repository root missing parse_repository fails: it neither
\* writes the snapshot file nor returns a snapshot.
C6_MissingRootIsFatal == ~root_exists => pc \notin {"dump", "graph"}

\* C7: a run interrupted before it completes leaves the snapshot file the
\* previous run persisted as it was.
C7_InterruptKeepsSnapshot ==
    (pc = "crashed" /\ prev_disk.exists) => disk = prev_disk

\* C8: two parse_repository runs over the same unchanged repository write
\* the same snapshot: same symbol order, same order in every list field.
C8_Determinism ==
    (pc = "idle" /\ runs >= 2 /\ root_exists) => disk = prev_disk

\* C9: depends_on, used_by and ext_dependencies are not set while files are
\* parsed; the linker runs once in a run, and only when every discovered
\* file has been parsed or skipped.
C9_LinkingOrder ==
    /\ link_calls <= 1
    /\ link_calls = 0 =>
          \A i \in DOMAIN all_symbols : DOMAIN all_symbols[i] \cap DepFields = {}
    /\ link_calls = 1 =>
          /\ file_idx = Len(files) + 1
          /\ \A k \in DOMAIN files :
                \/ files[k].path \in Range(error_log)
                \/ \E i \in DOMAIN all_symbols :
                      /\ all_symbols[i].file_path = files[k].path
                      /\ all_symbols[i].symbol_type = "module"
          /\ \A i \in DOMAIN all_symbols : DepFields \subseteq DOMAIN all_symbols[i]
    /\ pc \in {"save", "dump", "graph"} => link_calls = 1

\* The linker has run over a table of two files, one skipped and one parsed
C9_Witness ==
    /\ pc = "save"
    /\ link_calls = 1
    /\ Len(files) = 2
    /\ Len(error_log) = 1
    /\ all_symbols # <<>>

\* The module-type symbols of file u in the returned table
ModuleSymbols(u) ==
    {i \in DOMAIN result : result[i].symbol_type = "module" /\ result[i].file_path = u}

\* C10: the module graph has the edge u -> v if and only if u # v and some
\* entry of the depends_on list of the module symbol of file u is the uid of
\* a symbol defined in file v.
C10_GraphEdges ==
    (pc = "idle" /\ runs >= 1) =>
        \A u, v \in Paths :
            (<<u, v>> \in module_graph.edges)
                <=> /\ u # v
                    /\ \E m \in ModuleSymbols(u) :
                          \E d \in Range(result[m].depends_on) :
                              \E i \in DOMAIN result :
                                  result[i].UID = d /\ result[i].file_path = v

\* ------------------------------------------------ C11: edges of the graph
\* The run has completed and module_graph is the graph of the returned table
GraphBuilt == pc = "idle" /\ runs >= 1

\* C11: every edge (u, v) of the graph build_module_graph returns has u # v,
\* and u and v are both file paths of module-type symbols of the table the
\* graph was built from.
C11_EdgeValidity ==
    GraphBuilt =>
        \A e \in module_graph.edges :
            /\ e[1] # e[2]
            /\ ModuleSymbols(e[1]) # {}
            /\ ModuleSymbols(e[2]) # {}

\* A graph with an edge, built from a table in which a module also depends
\* on a symbol of its own file
C11_Witness ==
    /\ GraphBuilt
    /\ module_graph.edges # {}
    /\ \E m \in DOMAIN result :
          /\ result[m].symbol_type = "module"
          /\ \E i \in DOMAIN result :
                /\ result[i].file_path = result[m].file_path
                /\ result[i].UID \in Range(result[m].depends_on)

\* --------------------------------------- C12: the first pass on a snapshot
\* C12: build_module_graph applied to the symbol list parse_repository
\* returned indexes every symbol of the list by its identifier, so that every
\* depends_on entry of a module symbol that is the identifier of a symbol of
\* the list resolves to that symbol's file.
C12_SnapshotIndexed ==
    LET map == uid_to_module_file(result)
    IN  /\ \A i \in DOMAIN result : result[i].UID \in DOMAIN map
        /\ \A m, i \in DOMAIN result :
              (/\ result[m].symbol_type = "module"
               /\ result[i].UID \in Range(result[m].depends_on))
              => /\ result[i].UID \in DOMAIN map
                 /\ map[result[i].UID] = result[i].file_path

\* ------------------------------------------------ C13: the two-file scenario
\* a.py:    from a.b import x, f          a/b.py:    def f(): return x(f)
\*          def f(): return x(f)
ScenarioRepo ==
    (PathA :> Source(<<at_line(ImportXF, 1), at_line(DefF, 4)>>))
        @@ (PathAB :> Source(<<at_line(DefF, 1)>>))

\* C13: for a repository of two files, one importing a function of the other
\* and defining a function that calls it, after parse and link the caller's
\* depends_on holds the uid of the imported function, the imported function's
\* used_by holds the uid of the caller, and the module graph has the edge from
\* the importing file to the imported one.
C13_Scenario ==
    (GraphBuilt /\ root_exists /\ fs = ScenarioRepo) =>
        /\ \E i \in DOMAIN result :
              /\ result[i].UID = <<"a", "f">>
              /\ result[i].symbol_type = "function"
              /\ result[i].file_path = PathA
              /\ <<"a", "b", "f">> \in Range(result[i].depends_on)
        /\ \E j \in DOMAIN result :
              /\ result[j].UID = <<"a", "b", "f">>
              /\ result[j].symbol_type = "function"
              /\ result[j].file_path = PathAB
              /\ <<"a", "f">> \in Range(result[j].used_by)
        /\ <<PathA, PathAB>> \in module_graph.edges

\* The scenario repository has been parsed, linked and its graph built
C13_Witness ==
    /\ GraphBuilt
    /\ root_exists
    /\ fs = ScenarioRepo
    /\ Len(result) = 4

\* ------------------------------------------- C14-C16: scoped retrieval
\* A request has been served
Served == pc \in {"no_evidence", "ask_llm", "write_documentation", "documents", "raised"}

\* An item of the returned list: a search result or a document
metadata_of(item) == IF "symbol" \in DOMAIN item THEN item.symbol ELSE item.metadata

\* The ranked candidate list of the request and the positions in it that
\* are eligible for the scope
Candidates == first(vectorstore, get(RECALL_K_BY_SCOPE, scope, 30))
EligiblePositions ==
    {i \in DOMAIN Candidates :
        Candidates[i].doc.metadata.symbol_type \in get(SCOPE_ELIGIBILITY, scope, {})}

\* C14: for each of the scopes symbol, module and system and every candidate
\* list, the scoped retrieval returns at most FINAL_K[scope] items (symbol 15,
\* module 10, system 10), each of a symbol_type in SCOPE_ELIGIBILITY[scope].
C14_ScopeFilterBounded ==
    (Served /\ scope \in {"symbol", "module", "system"}) =>
        /\ Len(retrieved) <= FINAL_K_BY_SCOPE[scope]
        /\ Len(retrieved) <= (IF scope = "symbol" THEN 15 ELSE 10)
        /\ \A j \in DOMAIN retrieved :
              metadata_of(retrieved[j]).symbol_type \in SCOPE_ELIGIBILITY[scope]

\* More module documents than the cap among the candidates of a module
\* request, and other types among them
C14_Witness ==
    /\ Served
    /\ scope = "module"
    /\ Cardinality(EligiblePositions) > FINAL_K_BY_SCOPE[scope]
    /\ EligiblePositions # DOMAIN Candidates
    /\ Len(retrieved) = FINAL_K_BY_SCOPE[scope]

\* C15: the scoped retrieval returns exactly the first FINAL_K[scope] elements
\* of the eligible subsequence of the ranked candidate list: its j-th item is
\* the j-th eligible candidate, none is skipped and the order is kept.
C15_FirstEligible ==
    Served =>
        LET final_k == get(FINAL_K_BY_SCOPE, scope, 5)
            eligible == SelectSeq(Candidates,
                            LAMBDA c : c.doc.metadata.symbol_type
                                           \in get(SCOPE_ELIGIBILITY, scope, {}))
        IN  /\ Len(retrieved) = (IF Len(eligible) < final_k THEN Len(eligible) ELSE final_k)
            /\ \A j \in DOMAIN retrieved :
                  /\ metadata_of(retrieved[j]) = eligible[j].doc.metadata
                  /\ "score" \in DOMAIN retrieved[j] => retrieved[j].score = eligible[j].score

\* Eligible candidates before and after ineligible ones, more than the cap:
\* the result goes past the ineligible ones and stops at the cap
C15_Witness ==
    /\ pc = "ask_llm"
    /\ Len(retrieved) = get(FINAL_K_BY_SCOPE, scope, 5)
    /\ Cardinality(EligiblePositions) > Len(retrieved)
    /\ \E i \in DOMAIN Candidates :
          /\ i \notin EligiblePositions
          /\ i > metadata_of(retrieved[1]).uid
          /\ i < metadata_of(retrieved[Len(retrieved)]).uid

\* C16: when no candidate is eligible for the requested scope, an empty
\* candidate list included, the scoped retrieval returns an empty list and
\* raises no error.
C16_EmptyScopeResult ==
    (Served /\ EligiblePositions = {}) =>
        /\ pc # "raised"
        /\ retrieved = <<>>
        /\ pc \in {"no_evidence", "write_documentation", "documents"}

\* QAAgent.run has found nothing eligible among the candidates of a store
\* that holds documents
C16_Witness ==
    /\ pc = "no_evidence"
    /\ Candidates # <<>>
    /\ EligiblePositions = {}
    /\ scope \in {"symbol", "module", "system"}

\* -------------------------------------------- C17: one module symbol per file
\* The files of the run that parse_file returned symbols for
ParsedFiles == {files[k].path : k \in DOMAIN files} \ Range(error_log)

ModuleCount(symbols, p) ==
    Cardinality({i \in DOMAIN symbols :
                    symbols[i].symbol_type = "module" /\ symbols[i].file_path = p})

\* C17: a snapshot holds exactly one module-type symbol for each file that
\* was parsed successfully and none for a skipped file, so it has as many
\* module symbols as files were parsed.
C17_OneModulePerFile ==
    (pc = "graph" \/ GraphBuilt) =>
        /\ disk.closed /\ disk.symbols = result
        /\ \A p \in Paths :
              ModuleCount(disk.symbols, p) = (IF p \in ParsedFiles THEN 1 ELSE 0)
        /\ Cardinality({i \in DOMAIN disk.symbols : disk.symbols[i].symbol_type = "module"})
              = Cardinality(ParsedFiles)

\* A snapshot of a run that parsed one file with several symbols and skipped
\* the other one
C17_Witness ==
    /\ GraphBuilt
    /\ Len(files) = 2
    /\ Cardinality(ParsedFiles) = 1
    /\ Len(disk.symbols) > 2

\* ------------------------------------------------ C18: nodes of the graph
\* C18: the nodes of the module graph are exactly the file paths of the
\* module-type symbols of the table it was built from: a file without a
\* resolvable in-repo import is a node, and no edge brings in a node that is
\* not a module file.
C18_GraphNodes ==
    GraphBuilt =>
        module_graph.nodes = {p \in Paths : ModuleSymbols(p) # {}}

\* Two module files without an edge, one of them with an import that is not
\* resolved in the repository
C18_Witness ==
    /\ GraphBuilt
    /\ Cardinality(module_graph.nodes) = 2
    /\ module_graph.edges = {}
    /\ \E m \in DOMAIN result :
          result[m].symbol_type = "module" /\ result[m].ext_dependencies # <<>>

\* ------------------------------------------------ C19: the induced subgraph
\* C19: module_subgraph returns the graph of exactly the selected nodes that
\* are in the graph and exactly the edges of the graph between selected
\* nodes; an empty selection gives the empty graph and no error; the graph it
\* was given is left as it was.
C19_InducedSubgraph ==
    [][(pc = "diagram" /\ pc' # "diagram") =>
        LET selected == Range(get(selected_module_ids, "selected_modules", <<>>))
        IN  /\ pc' = "drawn"
            /\ subgraph'.nodes = module_graph.nodes \cap selected
            /\ subgraph'.edges = {e \in module_graph.edges : {e[1], e[2]} \subseteq selected}
            /\ selected = {} => subgraph' = NoGraph
            /\ module_graph' = module_graph]_vars

\* A selection with a path that is not in the graph, which keeps one edge of
\* the graph and drops another one
C19_Witness ==
    /\ pc = "drawn"
    /\ \E n \in Range(get(selected_module_ids, "selected_modules", <<>>)) :
          n \notin module_graph.nodes
    /\ subgraph.edges # {}
    /\ subgraph.edges # module_graph.edges
    /\ subgraph_dot.exists

\* --------------------------------------------- C20: the snapshot is replaced
\* What parse_file returns for the files of a list, in the order of the list
RECURSIVE parsed_symbols(_, _, _)
parsed_symbols(file_list, tree, seed) ==
    IF file_list = <<>> THEN <<>>
    ELSE (IF parse_raises(tree[Head(file_list).path]) THEN <<>>
          ELSE parse_file(Head(file_list), tree[Head(file_list).path], seed))
             \o parsed_symbols(Tail(file_list), tree, seed)

\* The linked table of the repository as it is now
FreshSnapshot ==
    add_dependencies(parsed_symbols(get_included_files(root_exists, fs), fs, hashseed))

\* C20: after any sequence of runs over a changing repository the snapshot
\* file holds exactly the symbols of the files parsed in the most recent
\* completed run: what a run writes is the table of the repository as that
\* run found it, and between runs the file holds what the last completed run
\* returned.
C20_SnapshotReplaced ==
    /\ pc = "graph" =>
          /\ disk.closed
          /\ disk.symbols = FreshSnapshot
          /\ result = disk.symbols
    /\ (pc \in {"idle", "crashed"} /\ runs >= 1) =>
          /\ disk.closed
          /\ disk.symbols = result

\* ------------------------------------------------------- C21: discovery
\* Directory names that are tests or test when the case is ignored, and file
\* stems that start with test_ or tests_ or end with _test or _tests
TestSegment(d) == d \in {"tests", "test", "Tests", "Test"}
TestStem(n) == n \in {"test_a", "tests_a", "a_test", "a_tests"}

\* C21: discovery returns exactly the source files under the root that are
\* not empty, have no directory segment tests or test (case ignored) in their
\* path, and have a stem that neither starts with test_ or tests_ nor ends
\* with _test or _tests.
C21_Discovery ==
    pc = "walked" =>
        {files[k].path : k \in DOMAIN files}
            = {p \in DOMAIN fs :
                  /\ fs[p].kind \notin {"absent", "empty"}
                  /\ \A i \in DOMAIN p.dirs : ~TestSegment(p.dirs[i])
                  /\ ~TestStem(p.name)}

\* ------------------------------------------- C22, C23: names and method typing
\* The definitions of a statement list in the order they are written, each
\* with the names of the classes that enclose it, outermost first
RECURSIVE enclosed_defs(_, _)
enclosed_defs(nodes, classes) ==
    IF nodes = <<>> THEN <<>>
    ELSE LET n == Head(nodes)
         IN  (IF n.kind \in {"FunctionDef", "ClassDef"}
              THEN <<[kind |-> n.kind, name |-> n.name, classes |-> classes,
                      lineno |-> n.lineno]>>
                   \o enclosed_defs(n.body,
                          IF n.kind = "ClassDef" THEN Append(classes, n.name) ELSE classes)
              ELSE <<>>)
             \o enclosed_defs(Tail(nodes), classes)

\* The file parse_file was called with
ParsedPath == files[1].path
ParsedTree == fs[ParsedPath].tree
DefsOfFile == enclosed_defs(ParsedTree.body, <<>>)

\* C22: for every symbol parse_file returns the uid equals the
\* qualified_name; the module symbol's is module_qname, a variable's is
\* module_qname.name, a function's, class's or method's is module_qname
\* followed by its class chain and name, and a parent_class that is not None
\* is that class chain with module_qname in front of it once.
C22_NameResolution ==
    pc = "parsed" =>
        LET m == module_qname_of(ParsedPath)
        IN  \A i \in DOMAIN all_symbols :
                LET sym == all_symbols[i]
                IN  /\ sym.UID = sym.qualified_name
                    /\ sym.symbol_type = "module" => sym.qualified_name = m
                    /\ sym.symbol_type = "variable" => sym.qualified_name = m \o <<sym.name>>
                    /\ sym.symbol_type \in {"function", "class", "method"} =>
                          /\ i <= Len(DefsOfFile)
                          /\ sym.qualified_name = m \o DefsOfFile[i].classes \o <<sym.name>>
                          /\ sym.parent_class =
                                (IF DefsOfFile[i].classes = <<>> THEN None
                                 ELSE m \o DefsOfFile[i].classes)

\* A file in a directory, with a method of a class nested in a class, and a
\* variable
C22_Witness ==
    /\ pc = "parsed"
    /\ ParsedPath = PathAB
    /\ \E i \in DOMAIN all_symbols :
          /\ all_symbols[i].symbol_type = "method"
          /\ Len(all_symbols[i].parent_class) = 4
    /\ \E i \in DOMAIN all_symbols : all_symbols[i].symbol_type = "variable"

\* C23: a function definition is emitted as a method exactly when a class
\* definition encloses it and as a function otherwise; its parent_class is
\* the qualified name of the innermost enclosing class; after the traversal
\* the class stack is empty again.
C23_MethodTyping ==
    pc = "parsed" =>
        LET m == module_qname_of(ParsedPath)
            emitted == SelectSeq(all_symbols,
                           LAMBDA sym : sym.symbol_type \in {"function", "class", "method"})
            visitor == visit(ParsedTree, SymbolVisitor, ParsedPath, <<>>, hashseed)
        IN  /\ Len(emitted) = Len(DefsOfFile)
            /\ \A i \in DOMAIN emitted :
                  LET def == DefsOfFile[i]
                  IN  /\ emitted[i].name = def.name
                      /\ emitted[i].start_lineno = def.lineno
                      /\ def.kind = "ClassDef" => emitted[i].symbol_type = "class"
                      /\ def.kind = "FunctionDef" =>
                            /\ (emitted[i].symbol_type = "method") <=> (def.classes # <<>>)
                            /\ (emitted[i].symbol_type = "function") <=> (def.classes = <<>>)
                            /\ emitted[i].parent_class =
                                  (IF def.classes = <<>> THEN None ELSE m \o def.classes)
            /\ visitor.class_stack = <<>>

\* A function nested in a method, a class body followed by a top-level
\* function: both typings after a class was left
C23_Witness ==
    /\ pc = "parsed"
    /\ \E i, j, k \in DOMAIN all_symbols :
          /\ i < j /\ j < k
          /\ all_symbols[i].symbol_type = "class"
          /\ all_symbols[j].symbol_type = "method"
          /\ all_symbols[k].symbol_type = "function"
    /\ \E i \in DOMAIN DefsOfFile :
          /\ DefsOfFile[i].kind = "FunctionDef"
          /\ \E j \in DOMAIN DefsOfFile :
                /\ j > i
                /\ DefsOfFile[j].kind = "FunctionDef"
                /\ DefsOfFile[j].lineno > DefsOfFile[i].lineno
                /\ DefsOfFile[j].classes # <<>>
                /\ DefsOfFile[j].classes = DefsOfFile[i].classes

\* ------------------------------------------ C24-C26, C28: the linked table
StrictlyAscending(l) == \A k \in 1..(Len(l) - 1) : StrLess(l[k], l[k + 1])

\* C24: after linking, depends_on, used_by and ext_dependencies of every
\* symbol are strictly ascending lists: sorted and without duplicates, also
\* when imports names a target more than once.
C24_SortedLists ==
    Linked =>
        \A i \in DOMAIN all_symbols :
            /\ StrictlyAscending(all_symbols[i].depends_on)
            /\ StrictlyAscending(all_symbols[i].used_by)
            /\ StrictlyAscending(all_symbols[i].ext_dependencies)

\* A linked table with a symbol that imports one target twice and a symbol
\* whose two resolved imports are written in descending order
C24_Witness ==
    /\ Linked
    /\ \E i \in DOMAIN all_symbols :
          /\ Len(all_symbols[i].imports) = 2
          /\ all_symbols[i].imports[1] = all_symbols[i].imports[2]
    /\ \E j \in DOMAIN all_symbols :
          /\ Len(all_symbols[j].imports) = 2
          /\ StrLess(all_symbols[j].imports[2], all_symbols[j].imports[1])
          /\ Len(all_symbols[j].depends_on) = 2

\* C25: a call of add_dependencies changes only depends_on, used_by and
\* ext_dependencies: the table keeps its symbols in their order, none added
\* and none removed, and every other field of every symbol keeps its value.
C25_OnlyDepFields ==
    [][link_calls' # link_calls =>
          /\ DOMAIN all_symbols' = DOMAIN all_symbols
          /\ \A i \in DOMAIN all_symbols :
                /\ DOMAIN all_symbols'[i] = DOMAIN all_symbols[i] \cup DepFields
                /\ Unlinked(all_symbols'[i]) = Unlinked(all_symbols[i])]_vars

\* A linked table of two symbols of one UID that differ in their imports
C25_Witness ==
    /\ pc = "linked"
    /\ Len(all_symbols) = 2
    /\ all_symbols[1].UID = all_symbols[2].UID
    /\ all_symbols[1].imports # all_symbols[2].imports
    /\ all_symbols[2].depends_on # <<>>

\* C26: add_dependencies on a table it has already linked yields the same
\* depends_on, used_by and ext_dependencies for every symbol.
C26_Idempotent ==
    [][(pc = "linked" /\ pc' = "relinked") =>
          /\ DOMAIN all_symbols' = DOMAIN all_symbols
          /\ \A i \in DOMAIN all_symbols :
                \A key \in DepFields : all_symbols'[i][key] = all_symbols[i][key]]_vars

\* A table linked twice in which a symbol is used by another one and has an
\* unresolved import
C26_Witness ==
    /\ pc = "relinked"
    /\ link_calls = 2
    /\ \E i, j \in DOMAIN all_symbols :
          /\ i # j
          /\ all_symbols[j].UID \in Range(all_symbols[i].used_by)
          /\ all_symbols[i].ext_dependencies # <<>>

\* C28: after linking, every entry of every used_by list is the uid of a
\* symbol of the table whose imports contain the uid of the list's owner.
C28_NoDanglingBackEdges ==
    Linked =>
        \A i \in DOMAIN all_symbols :
            \A u \in Range(all_symbols[i].used_by) :
                \E j \in DOMAIN all_symbols :
                    /\ all_symbols[j].UID = u
                    /\ all_symbols[i].UID \in Range(all_symbols[j].imports)

\* A linked table where a symbol is used by a symbol of another UID, and one
\* where the importer also has an unresolved import
C28_Witness ==
    /\ Linked
    /\ \E i, j \in DOMAIN all_symbols :
          /\ all_symbols[i].UID # all_symbols[j].UID
          /\ all_symbols[i].used_by = <<all_symbols[j].UID>>
          /\ all_symbols[j].ext_dependencies # <<>>
          /\ all_symbols[j].used_by = <<>>

\* ------------------------------------------- C27: the module symbol's edges
\* The module symbols of the file of a symbol
ModulesOf(symbols, file_path) ==
    {j \in DOMAIN symbols :
        symbols[j].symbol_type = "module" /\ symbols[j].file_path = file_path}

\* The file a uid belongs to, as the module graph resolves it
FileOfUid(symbols) == uid_to_module_file(build_retrieval_units(symbols))

\* C27: for every file F of a linked table, depends_on and ext_dependencies
\* of each function, class, method and variable symbol of F are subsets of
\* those of the module symbol of F; so every dependency of a symbol on a
\* symbol of another file is an edge of the module graph.
C27_ModuleCoversSymbols ==
    /\ Linked =>
          \A i \in DOMAIN all_symbols :
              all_symbols[i].symbol_type # "module" =>
                  /\ ModulesOf(all_symbols, all_symbols[i].file_path) # {}
                  /\ \A j \in ModulesOf(all_symbols, all_symbols[i].file_path) :
                        /\ Range(all_symbols[i].depends_on)
                              \subseteq Range(all_symbols[j].depends_on)
                        /\ Range(all_symbols[i].ext_dependencies)
                              \subseteq Range(all_symbols[j].ext_dependencies)
    /\ GraphBuilt =>
          \A i \in DOMAIN result :
              \A d \in Range(result[i].depends_on) :
                  (d \in DOMAIN FileOfUid(result)
                      /\ FileOfUid(result)[d] # result[i].file_path)
                  => <<result[i].file_path, FileOfUid(result)[d]>> \in module_graph.edges

\* A function whose file imports two names and uses one of them: one
\* dependency on a symbol of the other file, fewer entries than its module
\* symbol has, and the graph built
C27_Witness ==
    /\ GraphBuilt
    /\ Linked
    /\ result = all_symbols
    /\ \E i \in DOMAIN result :
          /\ result[i].symbol_type \in {"function", "method"}
          /\ \E d \in Range(result[i].depends_on) :
                /\ d \in DOMAIN FileOfUid(result)
                /\ FileOfUid(result)[d] # result[i].file_path
          /\ \E j \in ModulesOf(result, result[i].file_path) :
                Len(result[j].depends_on) + Len(result[j].ext_dependencies)
                    > Len(result[i].depends_on) + Len(result[i].ext_dependencies)

\* ------------------------------------------------ C29: methods are not served
\* C29: a candidate of symbol_type method is never in the list the scoped
\* retrieval returns, whatever the scope (symbol, module, system or one the
\* tables do not know), and for a scope the tables do not know the returned
\* list is empty.
C29_MethodsNeverReturned ==
    Served =>
        /\ \A i \in DOMAIN retrieved : metadata_of(retrieved[i]).symbol_type # "method"
        /\ scope \notin {"symbol", "module", "system"} => retrieved = <<>>

\* A request of scope symbol whose nearest candidate is a method and that
\* returned other candidates
C29_Witness ==
    /\ Served
    /\ scope = "symbol"
    /\ Candidates # <<>>
    /\ Candidates[1].doc.metadata.symbol_type = "method"
    /\ retrieved # <<>>
    /\ metadata_of(retrieved[1]).uid > 1

\* ---------------------------------------------- C30: webhook loop prevention
\* The delivery is handled as a push event
IsPush(req) ==
    /\ req.secret
    /\ req.signature = "valid"
    /\ req.project # ""
    /\ req.event \in {"push", "missing"}

CommitsOf(req) == get(req.payload, "commits", <<>>)
IsCodeBotCommit(commit) == startswith(commit.message, CodeBotPrefix)
ChangesFiles(commit) ==
    commit.added # <<>> \/ commit.modified # <<>> \/ commit.removed # <<>>

\* C30: a push in which every commit message starts with [CodeBot] never
\* schedules a background update, and a push schedules one only if some commit
\* whose message does not start with [CodeBot] adds, modifies or removes a
\* file.
C30_LoopPrevention ==
    [][(pc = "received" /\ pc' = "responded" /\ IsPush(request)) =>
          /\ (\A i \in DOMAIN CommitsOf(request) : IsCodeBotCommit(CommitsOf(request)[i]))
                => background_tasks' = background_tasks
          /\ background_tasks' # background_tasks
                => \E i \in DOMAIN CommitsOf(request) :
                      /\ ~IsCodeBotCommit(CommitsOf(request)[i])
                      /\ ChangesFiles(CommitsOf(request)[i])]_vars

\* The push of the docs commit of an update has come back and was ignored
C30_Witness ==
    /\ pc = "responded"
    /\ request # NoDelivery
    /\ request = CodeBotPush(request.project)
    /\ response = [status |-> "ignored", reason |-> "auto-generated bot commit"]
    /\ background_tasks = <<>>

====
